---- MODULE Spec2Model ----
(***************************************************************************)
(* A model of pydsql/typeParser.py: the annotation describer, the          *)
(* field-metadata enricher, the model field extractor and the namespace    *)
(* collector.                                                              *)
(*                                                                         *)
(* Python values are modelled as follows.                                  *)
(*   - a dict with fixed string keys (a descriptor) is a record;           *)
(*   - an insertion-ordered dict with computed keys (module.__dict__, the  *)
(*     registry, a field mapping) is a sequence of [k, v] items with       *)
(*     distinct keys;                                                      *)
(*   - a list or tuple is a sequence;                                      *)
(*   - an annotation object is a record with a `tag`: what get_origin,     *)
(*     get_args, isinstance and issubclass can tell about it;              *)
(*   - a call that raises returns [raised |-> TRUE, ...] with what the     *)
(*     exception carries, a call that returns [raised |-> FALSE, value].   *)
(*                                                                         *)
(* Library behaviour the code relies on, as of pydantic 2 on Python 3.11+: *)
(*   - FieldInfo.default is PydanticUndefined when no default is declared; *)
(*   - cls.__annotations__ holds the annotations of the class's own body,  *)
(*     model_fields and get_type_hints those of the whole MRO;             *)
(*   - get_type_hints evaluates a string annotation in the globals of the  *)
(*     defining module (here: the module scanned) and raises NameError     *)
(*     for a name that is not bound;                                       *)
(*   - dir(module) lists every bound name, sorted.                         *)
(***************************************************************************)
EXTENDS Integers, Sequences, FiniteSets, TLC

VARIABLES pc, tp, ret, module, classes, model, type_aliases, models, out, idx, calls, first, passed

vars == <<pc, tp, ret, module, classes, model, type_aliases, models, out, idx, calls, first, passed>>

(***************************************************************************)
(* Bounds of the model.                                                    *)
(***************************************************************************)
\* members of a Union[...]
MaxArity == 2
\* metadata items of an Annotated[...]
MaxMeta == 2

(***************************************************************************)
(* Python values.                                                          *)
(***************************************************************************)
None == "<None>"

PydanticUndefined == "<PydanticUndefined>"

EmptyDict == <<>>

\* A class object: isinstance(c, type) holds; isModel is issubclass(c, BaseModel).
Class(name, isModel) == [tag |-> "class", name |-> name, isModel |-> isModel]

BaseModel == Class("BaseModel", TRUE)

NoneType == Class("NoneType", FALSE)

int == Class("int", FALSE)

\* pydantic.fields.FieldInfo used as Annotated metadata: Field(discriminator=..., alias=...)
FieldInfo(discriminator, alias, description) == [tag |-> "FieldInfo", discriminator |-> discriminator, alias |-> alias, description |-> description, json_schema_extra |-> None, text |-> "FieldInfo(...)"]

\* Any other object: not a class, and no Literal/Union/Annotated origin.
Obj(text) == [tag |-> "object", text |-> text]

LiteralOf(values) == [tag |-> "Literal", values |-> values]

UnionOf(args) == [tag |-> "Union", args |-> args]

AnnotatedOf(base, metas) == [tag |-> "Annotated", args |-> <<base>> \o metas]

\* typing.get_origin, as far as the code tests it
get_origin(obj) == IF obj.tag \in {"Literal", "Union", "Annotated"} THEN obj.tag ELSE None

\* typing.get_args
get_args(obj) == IF obj.tag = "Literal" THEN obj.values ELSE IF obj.tag \in {"Union", "Annotated"} THEN obj.args ELSE <<>>

isinstance_type(obj) == obj.tag = "class"

issubclass_BaseModel(obj) == obj.isModel

isinstance_FieldInfo(obj) == obj.tag = "FieldInfo"

\* str(obj)
str(obj) == IF obj.tag \in {"object", "FieldInfo"} THEN obj.text ELSE obj.tag

(***************************************************************************)
(* is_type_annotation                                                      *)
(***************************************************************************)
is_type_annotation(obj) ==
    LET origin == get_origin(obj)
    IN origin = "Annotated" \/ origin = "Literal" \/ origin = "Union"

(***************************************************************************)
(* describe_annotation                                                     *)
(***************************************************************************)
\* faulty variant: the membership test looks for the value None, which get_args never holds
has_none_value(args) == FALSE

\* has_none = NoneType in args
has_none(args) == \E i \in 1..Len(args) : args[i] = NoneType

\* faulty variant: the fallback arm forgets the "optional" key
unknown_without_optional(t) == [kind |-> "unknown", repr |-> str(t)]

\* the last arm: unknown/unhandled type annotation
unknown_descriptor(t) == [kind |-> "unknown", repr |-> str(t), optional |-> FALSE]

RECURSIVE describe_annotation(_)

describe_annotation(t) ==
    LET origin == get_origin(t)
        args == get_args(t)
    IN IF origin = "Literal"
       THEN [kind |-> "literal", values |-> args, optional |-> FALSE]
       ELSE IF origin = "Union"
       THEN [kind |-> "union",
             options |-> [i \in 1..Len(args) |-> describe_annotation(args[i])],
             optional |-> has_none(args)]
       ELSE IF origin = "Annotated"
       THEN [kind |-> "annotated",
             base |-> describe_annotation(args[1]),
             metadata |-> [i \in 1..(Len(args) - 1) |-> describe_annotation(args[i + 1])],
             optional |-> FALSE]
       ELSE IF isinstance_type(t) /\ issubclass_BaseModel(t)
       THEN [kind |-> "model_ref", name |-> t.name, optional |-> FALSE]
       ELSE IF isinstance_type(t)
       THEN [kind |-> "type", name |-> t.name, optional |-> FALSE]
       ELSE unknown_descriptor(t)

(***************************************************************************)
(* describe_models                                                         *)
(***************************************************************************)
\* faulty variant: the scan has no break, so the last FieldInfo wins
last_FieldInfo(args) ==
    LET hits == {i \in 2..Len(args) : isinstance_FieldInfo(args[i])}
    IN IF hits = {} THEN 0 ELSE CHOOSE i \in hits : \A j \in hits : i >= j

\* the for/break scan of args[1:] for the first FieldInfo: its index in args, 0 if none
first_FieldInfo(args) ==
    LET hits == {i \in 2..Len(args) : isinstance_FieldInfo(args[i])}
    IN IF hits = {} THEN 0 ELSE CHOOSE i \in hits : \A j \in hits : i <= j

describe_models(t) ==
    LET origin == get_origin(t)
        args == get_args(t)
        hit == IF origin = "Annotated" THEN first_FieldInfo(args) ELSE 0
        discriminator == IF hit = 0 THEN None ELSE args[hit].discriminator
        field_meta == IF hit = 0 THEN EmptyDict
                      ELSE [alias |-> args[hit].alias,
                            description |-> args[hit].description,
                            json_schema_extra |-> args[hit].json_schema_extra]
        base_description == describe_annotation(t)
    IN [discriminator |-> discriminator, field_meta |-> field_meta] @@ base_description

(***************************************************************************)
(* Insertion-ordered dicts: sequences of [k, v] items with distinct keys.  *)
(***************************************************************************)
Keys(d) == {d[i].k : i \in 1..Len(d)}

\* d[key], for a key of d
DictAt(d, key) == d[CHOOSE i \in 1..Len(d) : d[i].k = key].v

\* faulty variant: a new key goes to the front of the dict
DictSetFront(d, key, value) ==
    IF key \in Keys(d)
    THEN [i \in 1..Len(d) |-> IF d[i].k = key THEN [k |-> key, v |-> value] ELSE d[i]]
    ELSE <<[k |-> key, v |-> value]>> \o d

\* d[key] = value: a key already there keeps its place, a new key goes last
DictSet(d, key, value) ==
    IF key \in Keys(d)
    THEN [i \in 1..Len(d) |-> IF d[i].k = key THEN [k |-> key, v |-> value] ELSE d[i]]
    ELSE Append(d, [k |-> key, v |-> value])

\* a lookup that fails, and one that succeeds
NotFound == [found |-> FALSE]

Found(value) == [found |-> TRUE, value |-> value]

(***************************************************************************)
(* Classes and their fields, as pydantic and typing present them.          *)
(*   classes[c] = [base, own]: the parent class name and the fields the    *)
(*   class body declares, each [name, raw, default, default_factory,       *)
(*   alias]; raw is the annotation as written: a string (the module uses   *)
(*   postponed evaluation, or the annotation is quoted) or an object.      *)
(***************************************************************************)
\* a string annotation
Str(text) == [tag |-> "str", text |-> text]

isinstance_str(obj) == obj.tag = "str"

Builtins == <<[k |-> "int", v |-> int]>>

\* the string annotations that are not bare names, and the name each uses
OptionalOf == [t \in {"Optional[Color]"} |-> "Color"]

\* a global name looked up in the module, then in the builtins
Lookup(globalns, name) ==
    IF name \in Keys(globalns) THEN Found(DictAt(globalns, name))
    ELSE IF name \in Keys(Builtins) THEN Found(DictAt(Builtins, name))
    ELSE NotFound

NameError(name) == [raised |-> TRUE, exc |-> "NameError", name |-> name, message |-> "name '" \o name \o "' is not defined"]

Returned(value) == [raised |-> FALSE, value |-> value]

\* typing's evaluation of one annotation: an object is itself, a string is
\* evaluated in the globals of the defining module
eval_type(raw, globalns) ==
    IF ~isinstance_str(raw) THEN Returned(raw)
    ELSE IF raw.text \in DOMAIN OptionalOf
    THEN LET r == Lookup(globalns, OptionalOf[raw.text])
         IN IF r.found THEN Returned(UnionOf(<<r.value, NoneType>>)) ELSE NameError(OptionalOf[raw.text])
    ELSE LET r == Lookup(globalns, raw.text)
         IN IF r.found THEN Returned(r.value) ELSE NameError(raw.text)

\* the classes of the MRO that declare fields, base first (BaseModel declares none)
RECURSIVE reversed_mro(_, _)

reversed_mro(cls, c) == IF c = "BaseModel" THEN <<>> ELSE Append(reversed_mro(cls, cls[c].base), c)

\* model.__annotations__: the annotations of the class's own body, as written
own_annotations(cls, c) == [i \in 1..Len(cls[c].own) |-> [k |-> cls[c].own[i].name, v |-> cls[c].own[i].raw]]

\* every annotated name of the MRO with its declaration, base first, a
\* redeclaration replacing the inherited one in place
RECURSIVE declared(_, _)

declared(cls, c) ==
    IF c = "BaseModel" THEN <<>>
    ELSE LET RECURSIVE put(_, _)
             put(d, i) == IF i > Len(cls[c].own) THEN d
                          ELSE put(DictSet(d, cls[c].own[i].name, cls[c].own[i]), i + 1)
         IN put(declared(cls, cls[c].base), 1)

\* faulty variant: an annotation that cannot be resolved is left as a ForwardRef object
get_type_hints_lenient(cls, c, globalns) ==
    LET d == declared(cls, c)
    IN Returned([i \in 1..Len(d) |->
            [k |-> d[i].k,
             v |-> LET r == eval_type(d[i].v.raw, globalns)
                   IN IF r.raised THEN Obj("ForwardRef") ELSE r.value]])

\* get_type_hints(model, include_extras=True): the resolved annotation of every
\* name, or the NameError of the first annotation that cannot be resolved
get_type_hints(cls, c, globalns) ==
    LET d == declared(cls, c)
        order == [i \in 1..Len(reversed_mro(cls, c)) |-> own_annotations(cls, reversed_mro(cls, c)[i])]
        flat == LET RECURSIVE cat(_)
                    cat(i) == IF i > Len(order) THEN <<>> ELSE order[i] \o cat(i + 1)
                IN cat(1)
        bad == {i \in 1..Len(flat) : eval_type(flat[i].v, globalns).raised}
    IN IF bad # {}
       THEN eval_type(flat[CHOOSE i \in bad : \A j \in bad : i <= j].v, globalns)
       ELSE Returned([i \in 1..Len(d) |-> [k |-> d[i].k, v |-> eval_type(d[i].v.raw, globalns).value]])

\* model.model_fields: name -> FieldInfo(annotation, default, default_factory, alias)
model_fields(cls, c, globalns) ==
    LET d == declared(cls, c)
    IN [i \in 1..Len(d) |->
          [k |-> d[i].k,
           v |-> [annotation |-> LET r == eval_type(d[i].v.raw, globalns)
                                 IN IF r.raised THEN Obj("ForwardRef") ELSE r.value,
                  default |-> d[i].v.default,
                  default_factory |-> d[i].v.default_factory,
                  alias |-> d[i].v.alias]]]

\* FieldInfo.is_required()
is_required(field) == field.default = PydanticUndefined /\ field.default_factory = None

(***************************************************************************)
(* iter_model_fields                                                       *)
(***************************************************************************)
\* has_default, as both branches of iter_model_fields compute it
has_default(field) == field.default # None \/ field.default_factory # None

\* raw_annotations.get(name); the None of a missing name is an object that is no str
raw_annotations_get(cls, c, name) ==
    LET raw_annotations == own_annotations(cls, c)
    IN IF name \in Keys(raw_annotations) THEN DictAt(raw_annotations, name) ELSE Obj("None")

\* isinstance(raw_ann, str) and raw_ann in type_aliases
is_alias_reference(raw_ann, aliases) == isinstance_str(raw_ann) /\ raw_ann.text \in Keys(aliases)

type_ref(name) == [kind |-> "type_ref", name |-> name, optional |-> FALSE, discriminator |-> None, field_meta |-> EmptyDict]

\* one pass of the loop over model.model_fields: the Field Descriptor of a field
field_descriptor(cls, c, aliases, hints, name, field) ==
    LET ann == IF name \in Keys(hints) THEN DictAt(hints, name) ELSE field.annotation
        raw_ann == raw_annotations_get(cls, c, name)
    IN [annotation |-> IF is_alias_reference(raw_ann, aliases) THEN type_ref(raw_ann.text) ELSE describe_models(ann),
        required |-> is_required(field),
        has_default |-> has_default(field),
        default |-> field.default,
        alias |-> field.alias]

iter_model_fields(cls, c, aliases, globalns) ==
    LET hints == get_type_hints(cls, c, globalns)
        fields == model_fields(cls, c, globalns)
    IN IF hints.raised THEN hints
       ELSE Returned([i \in 1..Len(fields) |->
                [k |-> fields[i].k,
                 v |-> field_descriptor(cls, c, aliases, hints.value, fields[i].k, fields[i].v)]])

(***************************************************************************)
(* The namespace: module.__dict__ as an insertion-ordered dict.            *)
(***************************************************************************)
\* the names a module may bind, in the order dir() lists them (sorted by code point)
NameOrder == <<"BaseModel", "Color", "Details", "Item", "Product", "_Color", "_Hidden", "date">>

\* name.startswith("_")
startswith_underscore(name) == name \in {"_Color", "_Hidden"}

\* dir(module): the bound names, sorted
dir(m) == SelectSeq(NameOrder, LAMBDA n : n \in Keys(m))

\* getattr(module, attr_name)
getattr(m, attr_name) == DictAt(m, attr_name)

(***************************************************************************)
(* collect_base_models                                                     *)
(***************************************************************************)
\* faulty variant: names with the internal-convention prefix are skipped
collect_public_base_models(m) ==
    LET names == dir(m)
        keep(n) == /\ ~startswith_underscore(n)
                   /\ isinstance_type(getattr(m, n))
                   /\ issubclass_BaseModel(getattr(m, n))
                   /\ getattr(m, n) # BaseModel
        kept == SelectSeq(names, keep)
    IN [i \in 1..Len(kept) |-> [k |-> kept[i], v |-> getattr(m, kept[i])]]

collect_base_models(m) ==
    LET names == dir(m)
        keep(n) == /\ isinstance_type(getattr(m, n))
                   /\ issubclass_BaseModel(getattr(m, n))
                   /\ getattr(m, n) # BaseModel
        kept == SelectSeq(names, keep)
    IN [i \in 1..Len(kept) |-> [k |-> kept[i], v |-> getattr(m, kept[i])]]

(***************************************************************************)
(* find_defined_type_aliases                                               *)
(***************************************************************************)
\* faulty variant: each alias is described by the enricher
find_enriched_type_aliases(m) ==
    LET keep(item) == ~startswith_underscore(item.k) /\ is_type_annotation(item.v)
        kept == SelectSeq(m, keep)
    IN [i \in 1..Len(kept) |-> [k |-> kept[i].k, v |-> describe_models(kept[i].v)]]

find_defined_type_aliases(m) ==
    LET keep(item) == ~startswith_underscore(item.k) /\ is_type_annotation(item.v)
        kept == SelectSeq(m, keep)
    IN [i \in 1..Len(kept) |-> [k |-> kept[i].k, v |-> describe_annotation(kept[i].v)]]

(***************************************************************************)
(* The annotations the describer and the enricher are applied to.          *)
(***************************************************************************)
SeqsUpTo(S, n) == UNION {[1..k -> S] : k \in 1..n}

Item == Class("Item", TRUE)

AtomTypes == {int, NoneType, Item, BaseModel}

LiteralTypes == {LiteralOf(<<"a">>), LiteralOf(<<"b", "a">>)}

MetaItems == {FieldInfo("kind", None, None), FieldInfo(None, "ext", "doc"), Obj("Gt(gt=0)")}

\* list[int] has origin list, and int | None has origin types.UnionType (not
\* typing.Union) on the Pythons before 3.14: neither is a class
Members == AtomTypes \cup LiteralTypes \cup {Obj("list[int]"), Obj("int | None")}

Unions == {UnionOf(s) : s \in SeqsUpTo(Members, MaxArity)}

Annotateds == {AnnotatedOf(b, m) : b \in Members \cup Unions, m \in SeqsUpTo(MetaItems, MaxMeta)}

NestedUnions == {UnionOf(<<AnnotatedOf(b, <<m>>), NoneType>>) : b \in AtomTypes, m \in MetaItems}

Annotations == Members \cup MetaItems \cup Unions \cup Annotateds \cup NestedUnions

(***************************************************************************)
(* SpecDescribe: one call of describe_annotation or of describe_models on  *)
(* an annotation.                                                          *)
(***************************************************************************)
Idle == /\ module = <<>> /\ classes = <<>> /\ model = None /\ type_aliases = <<>>
        /\ models = <<>> /\ out = <<>> /\ idx = 0 /\ calls = 0 /\ first = <<>> /\ passed = <<>>

InitDescribe == /\ pc = "start" /\ tp \in Annotations /\ ret = None /\ Idle

CallDescribeAnnotation ==
    /\ pc = "start"
    /\ ret' = describe_annotation(tp)
    /\ pc' = "describe_annotation"
    /\ UNCHANGED <<tp, module, classes, model, type_aliases, models, out, idx, calls, first, passed>>

CallDescribeModels ==
    /\ pc = "start"
    /\ ret' = describe_models(tp)
    /\ pc' = "describe_models"
    /\ UNCHANGED <<tp, module, classes, model, type_aliases, models, out, idx, calls, first, passed>>

NextDescribe == CallDescribeAnnotation \/ CallDescribeModels

SpecDescribe == InitDescribe /\ [][NextDescribe]_vars

(***************************************************************************)
(* SpecFields: one call of iter_model_fields on a class of a module whose  *)
(* classes declare fields of every kind, with an alias dict of any keys.   *)
(***************************************************************************)
\* fields a class body declares
MaxFields == 2

ColorAlias == LiteralOf(<<"red", "green">>)

Product == Class("Product", TRUE)

Decl(name, raw, default, default_factory, alias) == [name |-> name, raw |-> raw, default |-> default, default_factory |-> default_factory, alias |-> alias]

\* the module the classes of SpecFields are defined in; the name Undefined is not bound
FieldsModule == <<[k |-> "Color", v |-> ColorAlias], [k |-> "Item", v |-> Item], [k |-> "Product", v |-> Product]>>

\* (raw annotation, default, default_factory, alias) of a declared field
FieldShapes ==
    ({Str("Color"), Str("int"), Str("Undefined"), Str("Optional[Color]"), ColorAlias} \X {<<PydanticUndefined, None, None>>})
    \cup ({Str("Color"), Str("int")} \X {<<None, None, None>>, <<"lit", None, None>>, <<PydanticUndefined, "factory", None>>})
    \cup {<<Str("int"), <<PydanticUndefined, None, "ext">>>>}

FieldNames == <<"f1", "f2", "f3", "f4">>

ParentBodies == {[i \in 1..Len(sh) |-> Decl(FieldNames[i], sh[i][1], sh[i][2][1], sh[i][2][2], sh[i][2][3])] : sh \in SeqsUpTo(FieldShapes, MaxFields)}

\* the child declares nothing, a new field, or redeclares f1
ChildBodies == {<<>>,
                <<Decl("extra", Str("int"), PydanticUndefined, None, None)>>,
                <<Decl("f1", Str("Color"), "lit", None, None)>>}

AliasDicts == {<<>>,
               <<[k |-> "Color", v |-> describe_annotation(ColorAlias)]>>,
               <<[k |-> "int", v |-> describe_annotation(ColorAlias)], [k |-> "Color", v |-> describe_annotation(ColorAlias)]>>}

InitFields ==
    /\ pc = "start" /\ tp = None /\ ret = None /\ model = None
    /\ module = FieldsModule
    /\ \E p \in ParentBodies, c \in ChildBodies :
          classes = [n \in {"Item", "Product"} |-> IF n = "Item" THEN [base |-> "BaseModel", own |-> p] ELSE [base |-> "Item", own |-> c]]
    /\ type_aliases \in AliasDicts
    /\ models = <<>> /\ out = <<>> /\ idx = 0 /\ calls = 0 /\ first = <<>> /\ passed = <<>>

CallIterModelFields ==
    /\ pc = "start"
    /\ \E c \in DOMAIN classes :
          /\ model' = c
          /\ ret' = iter_model_fields(classes, c, type_aliases, module)
    /\ pc' = "iter_model_fields"
    /\ UNCHANGED <<tp, module, classes, type_aliases, models, out, idx, calls, first, passed>>

NextFields == CallIterModelFields

SpecFields == InitFields /\ [][NextFields]_vars

(***************************************************************************)
(* Spec: retrieve_types_and_basemodels, called up to MaxCalls times on a   *)
(* module that binds up to MaxBindings names.                              *)
(***************************************************************************)
MaxBindings == 4

MaxCalls == 2

Hidden == Class("Hidden", TRUE)

date == Class("date", FALSE)

DetailsAlias == AnnotatedOf(UnionOf(<<Item, Product>>), <<FieldInfo("kind", None, None)>>)

\* what each name is bound to when the module binds it
Binding ==
    [n \in {NameOrder[i] : i \in 1..Len(NameOrder)} |->
        CASE n = "BaseModel" -> BaseModel
          [] n = "Color" -> ColorAlias
          [] n = "Details" -> DetailsAlias
          [] n = "Item" -> Item
          [] n = "Product" -> Product
          [] n = "_Color" -> ColorAlias
          [] n = "_Hidden" -> Hidden
          [] n = "date" -> date]

\* the class bodies of the module's models
ModuleClasses ==
    [n \in {"Item", "Product", "Hidden"} |->
        CASE n = "Item" -> [base |-> "BaseModel",
                            own |-> <<Decl("color", Str("Color"), PydanticUndefined, None, None),
                                      Decl("qty", Str("int"), "lit", None, None)>>]
          [] n = "Product" -> [base |-> "Item",
                               own |-> <<Decl("details", Str("Details"), PydanticUndefined, None, None)>>]
          [] n = "Hidden" -> [base |-> "BaseModel",
                              own |-> <<Decl("note", Str("Optional[Color]"), None, None, None)>>]]

\* the modules: up to MaxBindings distinct names, bound in any order
Modules ==
    {[i \in 1..Len(ns) |-> [k |-> ns[i], v |-> Binding[ns[i]]]] :
        ns \in {s \in SeqsUpTo(DOMAIN Binding, MaxBindings) : \A i, j \in 1..Len(s) : i # j => s[i] # s[j]}}

Init ==
    /\ pc = "idle" /\ tp = None /\ ret = None /\ model = None
    /\ module \in Modules
    /\ classes = ModuleClasses
    /\ type_aliases = <<>> /\ models = <<>> /\ out = <<>> /\ idx = 0
    /\ calls = 0 /\ first = None /\ passed = <<>>

\* faulty variant: out is one dict shared by all calls, cleared on entry, so the dict a
\* previous call returned is cleared with it
EnterSharedOut ==
    /\ pc \in {"idle", "returned", "raised"}
    /\ calls < MaxCalls
    /\ out' = <<>>
    /\ first' = IF calls = 0 THEN first ELSE Returned(<<>>)
    /\ type_aliases' = find_defined_type_aliases(module)
    /\ idx' = 1
    /\ pc' = "aliases"
    /\ models' = <<>> /\ passed' = <<>> /\ ret' = None /\ model' = None
    /\ UNCHANGED <<tp, module, classes, calls>>

\* the call is entered: out = {}, type_aliases = find_defined_type_aliases(module)
Enter ==
    /\ pc \in {"idle", "returned", "raised"}
    /\ calls < MaxCalls
    /\ out' = <<>>
    /\ type_aliases' = find_defined_type_aliases(module)
    /\ idx' = 1
    /\ pc' = "aliases"
    /\ models' = <<>> /\ passed' = <<>> /\ ret' = None /\ model' = None
    /\ UNCHANGED <<tp, module, classes, calls, first>>

\* for name, description in type_aliases.items(): out[name] = description
CopyAlias ==
    /\ pc = "aliases"
    /\ idx <= Len(type_aliases)
    /\ out' = DictSet(out, type_aliases[idx].k, type_aliases[idx].v)
    /\ idx' = idx + 1
    /\ UNCHANGED <<pc, tp, ret, module, classes, model, type_aliases, models, calls, first, passed>>

\* models = collect_base_models(module)
CollectModels ==
    /\ pc = "aliases"
    /\ idx > Len(type_aliases)
    /\ models' = collect_base_models(module)
    /\ idx' = 1
    /\ pc' = "models"
    /\ UNCHANGED <<tp, ret, module, classes, model, type_aliases, out, calls, first, passed>>

\* for name, model in models.items(): out[name] = iter_model_fields(model, type_aliases);
\* an exception of iter_model_fields ends the call
ExtractModel ==
    /\ pc = "models"
    /\ idx <= Len(models)
    /\ model' = models[idx].v.name
    /\ passed' = Append(passed, Keys(type_aliases))
    /\ LET r == iter_model_fields(classes, models[idx].v.name, type_aliases, module)
       IN IF r.raised
          THEN /\ pc' = "raised"
               /\ ret' = r
               /\ calls' = calls + 1
               /\ first' = IF calls = 0 THEN r ELSE first
               /\ UNCHANGED <<out, idx>>
          ELSE /\ out' = DictSet(out, models[idx].k, r.value)
               /\ idx' = idx + 1
               /\ UNCHANGED <<pc, ret, calls, first>>
    /\ UNCHANGED <<tp, module, classes, type_aliases, models>>

\* return out
Return ==
    /\ pc = "models"
    /\ idx > Len(models)
    /\ pc' = "returned"
    /\ ret' = Returned(out)
    /\ calls' = calls + 1
    /\ first' = IF calls = 0 THEN Returned(out) ELSE first
    /\ UNCHANGED <<tp, module, classes, model, type_aliases, models, out, idx, passed>>

Next == Enter \/ CopyAlias \/ CollectModels \/ ExtractModel \/ Return

Spec == Init /\ [][Next]_vars

(***************************************************************************)
(* Claims about the describer and the enricher (SpecDescribe).             *)
(***************************************************************************)
Kinds == {"literal", "union", "annotated", "model_ref", "type_ref", "type", "unknown"}

RECURSIVE WellTagged(_)

WellTagged(d) ==
    /\ {"kind", "optional"} \subseteq DOMAIN d
    /\ d.kind \in Kinds
    /\ d.optional \in BOOLEAN
    /\ d.kind = "union" => \A i \in 1..Len(d.options) : WellTagged(d.options[i])
    /\ d.kind = "annotated" =>
          /\ WellTagged(d.base)
          /\ \A i \in 1..Len(d.metadata) : WellTagged(d.metadata[i])

\* C1: every descriptor describe_annotation returns, and every descriptor nested
\* in it (union options, annotated base and metadata), has a kind among the seven
\* variants and a boolean optional; an annotation that is no Literal/Union/Annotated
\* construct and no class is described as kind "unknown".
C1_KindAndOptional ==
    pc = "describe_annotation" =>
        /\ WellTagged(ret)
        /\ (get_origin(tp) = None /\ ~isinstance_type(tp)) => ret.kind = "unknown"

C1_Witness ==
    /\ pc = "describe_annotation"
    /\ tp = AnnotatedOf(UnionOf(<<Item, Obj("list[int]")>>), <<Obj("Gt(gt=0)")>>)
    /\ ret.kind = "annotated"
    /\ ret.base.options[2].kind = "unknown"
    /\ ret.metadata[1].kind = "unknown"

\* C2: a Union of any arity >= 1 is described as kind "union" with one option per
\* raw member, in declaration order, each the description of that member (a
\* Literal member stays a nested literal, a single member stays a union), and
\* optional is true exactly when NoneType is one of the raw members.
C2_UnionOptions ==
    (pc = "describe_annotation" /\ get_origin(tp) = "Union") =>
        /\ ret.kind = "union"
        /\ Len(ret.options) = Len(tp.args)
        /\ \A i \in 1..Len(tp.args) :
              /\ ret.options[i] = describe_annotation(tp.args[i])
              /\ tp.args[i].tag = "Literal" =>
                    ret.options[i].kind = "literal" /\ ret.options[i].values = tp.args[i].values
        /\ ret.optional = (\E i \in 1..Len(tp.args) : tp.args[i] = NoneType)

C2_Witness ==
    /\ pc = "describe_annotation"
    /\ tp = UnionOf(<<LiteralOf(<<"b", "a">>), NoneType>>)
    /\ ret.optional
    /\ Len(ret.options) = 2
    /\ ret.options[1].kind = "literal"

\* the metadata item the enrichment keys must come from: the first FieldInfo among
\* the trailing arguments of an Annotated wrapper, 0 if there is none
ExpectedMeta(t) ==
    IF t.tag # "Annotated" THEN 0
    ELSE LET hits == {i \in 2..Len(t.args) : t.args[i].tag = "FieldInfo"}
         IN IF hits = {} THEN 0 ELSE CHOOSE i \in hits : \A j \in hits : i <= j

\* C6: describe_models returns the descriptor of describe_annotation plus exactly
\* the keys discriminator and field_meta, present even when nothing is found (None
\* and {}); for an Annotated wrapper their values are those of the first FieldInfo
\* among its metadata, in declaration order.
C6_EnrichmentKeys ==
    pc = "describe_models" =>
        LET d == describe_annotation(tp)
            m == ExpectedMeta(tp)
        IN /\ DOMAIN ret = DOMAIN d \cup {"discriminator", "field_meta"}
           /\ \A k \in DOMAIN d : ret[k] = d[k]
           /\ m = 0 => ret.discriminator = None /\ DOMAIN ret.field_meta = {}
           /\ m # 0 =>
                /\ ret.discriminator = tp.args[m].discriminator
                /\ DOMAIN ret.field_meta = {"alias", "description", "json_schema_extra"}
                /\ ret.field_meta.alias = tp.args[m].alias
                /\ ret.field_meta.description = tp.args[m].description
                /\ ret.field_meta.json_schema_extra = tp.args[m].json_schema_extra

C6_Witness ==
    /\ pc = "describe_models"
    /\ tp = AnnotatedOf(UnionOf(<<Item, NoneType>>), <<FieldInfo("kind", None, None), FieldInfo(None, "ext", "doc")>>)
    /\ ret.discriminator = "kind"
    /\ ret.field_meta.alias = None
    /\ ret.kind = "annotated"

(***************************************************************************)
(* Claims about the field extractor (SpecFields).                          *)
(***************************************************************************)
\* the declaration a field of the model has: its own, or the inherited one
DeclOf(name) == DictAt(declared(classes, model), name)

\* the annotation as written is a bare name that is a key of the alias dict
SpellsAlias(raw) == raw.tag = "str" /\ raw.text \notin DOMAIN OptionalOf /\ raw.text \in Keys(type_aliases)

\* C3 (as claimed): every field whose raw annotation is a bare name of the alias
\* set gets exactly {type_ref, that name, optional false, discriminator None,
\* field_meta {}}; every other field gets describe_models of its resolved annotation.
C3_TypeRefForAliasName ==
    (pc = "iter_model_fields" /\ ~ret.raised) =>
        \A i \in 1..Len(ret.value) :
            LET raw == DeclOf(ret.value[i].k).raw
                a == ret.value[i].v.annotation
            IN IF SpellsAlias(raw)
               THEN /\ a.kind = "type_ref" /\ a.name = raw.text /\ a.optional = FALSE
                    /\ a.discriminator = None /\ DOMAIN a.field_meta = {}
                    /\ DOMAIN a = {"kind", "name", "optional", "discriminator", "field_meta"}
               ELSE a = describe_models(eval_type(raw, module).value)

\* C3 restricted to the fields the class body itself declares: holds of the code.
C3_OwnFieldsOnly ==
    (pc = "iter_model_fields" /\ ~ret.raised) =>
        \A i \in 1..Len(ret.value) :
            LET raw == DeclOf(ret.value[i].k).raw
                a == ret.value[i].v.annotation
            IN IF SpellsAlias(raw) /\ ret.value[i].k \in Keys(own_annotations(classes, model))
               THEN a = type_ref(raw.text)
               ELSE a = describe_models(eval_type(raw, module).value)

\* C5 (as claimed): has_default is true exactly when the field declares a default
\* value or a default factory, on the type_ref path and on the expanded path.
C5_HasDefault ==
    (pc = "iter_model_fields" /\ ~ret.raised) =>
        \A i \in 1..Len(ret.value) :
            LET d == DeclOf(ret.value[i].k)
            IN ret.value[i].v.has_default = (d.default # PydanticUndefined \/ d.default_factory # None)

\* the names the model's annotations (its own and the inherited ones) use and the
\* module does not bind
UnboundNames ==
    LET mro == reversed_mro(classes, model)
        used(raw) == IF raw.text \in DOMAIN OptionalOf THEN OptionalOf[raw.text] ELSE raw.text
    IN {used(classes[mro[i]].own[j].raw) : <<i, j>> \in
            {<<i, j>> \in (1..Len(mro)) \X (1..MaxFields + 1) :
                /\ j <= Len(classes[mro[i]].own)
                /\ classes[mro[i]].own[j].raw.tag = "str"
                /\ used(classes[mro[i]].own[j].raw) \notin Keys(module) \cup Keys(Builtins)}}

\* C7 (as claimed): an unresolvable annotation fails the whole call, and the failure
\* reported identifies the offending field and the class.
C7_FailureNamesFieldAndClass ==
    (pc = "iter_model_fields" /\ UnboundNames # {}) =>
        /\ ret.raised
        /\ "value" \notin DOMAIN ret
        /\ {"field", "class"} \subseteq DOMAIN ret

\* C7 (amended): an unresolvable annotation, declared by the class or inherited,
\* fails the whole call with no field mapping returned; what is raised is the
\* resolver's NameError, which carries the unbound name and its message only.
C7_FailureIsNameError ==
    pc = "iter_model_fields" =>
        /\ ret.raised <=> UnboundNames # {}
        /\ ret.raised =>
              /\ DOMAIN ret = {"raised", "exc", "name", "message"}
              /\ ret.exc = "NameError"
              /\ ret.name \in UnboundNames
        /\ ~ret.raised => Keys(ret.value) = Keys(declared(classes, model))

C7_Witness ==
    /\ pc = "iter_model_fields"
    /\ model = "Product"
    /\ Len(classes["Item"].own) = 2
    /\ classes["Item"].own[2].raw = Str("Undefined")
    /\ classes["Item"].own[1].raw = Str("Color")
    /\ ret.raised
    /\ ret.name = "Undefined"

(***************************************************************************)
(* Claims about the namespace collector (Spec).                            *)
(***************************************************************************)
\* the public names the module binds to a Literal/Union/Annotated construct
AliasNames == {module[i].k : i \in {j \in 1..Len(module) : module[j].k \notin {"_Color", "_Hidden"} /\ module[j].v.tag \in {"Literal", "Union", "Annotated"}}}

\* the names the module binds to a BaseModel subclass other than BaseModel
ModelNames == {module[i].k : i \in {j \in 1..Len(module) : module[j].v.tag = "class" /\ module[j].v.isModel /\ module[j].v.name # "BaseModel"}}

\* the alias discovery of the running call is done
AliasesFound == pc \in {"aliases", "models", "returned", "raised"}

\* C4 (as claimed): every discovered alias is described by the enricher, so every
\* alias entry carries discriminator and field_meta, and an Annotated alias whose
\* metadata declares a discriminator has it as its entry's discriminator.
C4_AliasEntriesEnriched ==
    AliasesFound =>
        \A i \in 1..Len(type_aliases) :
            /\ {"discriminator", "field_meta"} \subseteq DOMAIN type_aliases[i].v
            /\ type_aliases[i].v = describe_models(getattr(module, type_aliases[i].k))

\* C4 (amended): every public name bound to a Literal/Union/Annotated construct is
\* discovered and described by describe_annotation alone: the alias entry carries
\* kind and optional and neither discriminator nor field_meta, also in the registry
\* returned.
C4_AliasEntriesDescribed ==
    /\ AliasesFound =>
          /\ Keys(type_aliases) = AliasNames
          /\ \A i \in 1..Len(type_aliases) :
                /\ type_aliases[i].v = describe_annotation(getattr(module, type_aliases[i].k))
                /\ {"kind", "optional"} \subseteq DOMAIN type_aliases[i].v
                /\ DOMAIN type_aliases[i].v \cap {"discriminator", "field_meta"} = {}
    /\ pc = "returned" =>
          \A n \in AliasNames : DictAt(out, n) = describe_annotation(getattr(module, n))

C4_Witness ==
    /\ pc = "returned"
    /\ "Details" \in Keys(out)
    /\ DictAt(out, "Details").kind = "annotated"
    /\ DictAt(out, "Details").metadata[1].kind = "unknown"
    /\ "discriminator" \notin DOMAIN DictAt(out, "Details")

C9_PublicModelsOnly ==
    pc \in {"models", "returned"} =>
        /\ Keys(models) = {n \in ModelNames : n \notin {"_Color", "_Hidden"}}
        /\ pc = "returned" => "_Hidden" \notin Keys(out)

\* C9 (amended): model discovery keeps every name of the namespace, names with
\* the prefix _ included, that is bound to a BaseModel subclass other than
\* BaseModel itself, in the sorted order of dir(); BaseModel never appears, and
\* the registry returned has an entry under each of these names.
C9_AllModelsButBase ==
    pc \in {"models", "returned"} =>
        /\ Keys(models) = ModelNames
        /\ \A i \in 1..Len(models) :
              /\ models[i].v = getattr(module, models[i].k)
              /\ models[i].v # Class("BaseModel", TRUE)
              /\ models[i].k # "BaseModel"
        /\ \A i, j \in 1..Len(models) :
              i < j => \E a, b \in 1..Len(NameOrder) : a < b /\ NameOrder[a] = models[i].k /\ NameOrder[b] = models[j].k
        /\ pc = "returned" => ModelNames \subseteq Keys(out)

C9_Witness ==
    /\ pc = "returned"
    /\ {"BaseModel", "_Hidden", "Color"} \subseteq Keys(module)
    /\ Keys(models) = {"_Hidden"}
    /\ "_Hidden" \in Keys(out)
    /\ "BaseModel" \notin Keys(out)

\* C10: in the registry, while it is built and when it is returned, every alias
\* entry precedes every model entry; the alias dict handed to iter_model_fields
\* for every model has all the discovered aliases as keys, and every alias is in
\* the registry before the first model is extracted.
C10_AliasesBeforeModels ==
    /\ \A i, j \in 1..Len(out) : (out[i].k \in AliasNames /\ out[j].k \in ModelNames) => i < j
    /\ \A i \in 1..Len(passed) : passed[i] = AliasNames
    /\ pc = "models" => AliasNames \subseteq Keys(out)
    /\ pc = "returned" => Keys(ret.value) = AliasNames \cup ModelNames

C10_Witness ==
    /\ pc = "returned"
    /\ Len(passed) = 2
    /\ Len(ret.value) = 4
    /\ AliasNames = {"Color", "Details"}
    /\ ret.value[3].k = "Item"
    /\ module[1].k = "Product"
    /\ module[4].k = "Color"

\* the names carried by the nodes of one kind (type_ref or model_ref) of a
\* descriptor, at any nesting depth
RECURSIVE RefNames(_, _)

RefNames(d, kind) ==
    (IF d.kind = kind THEN {d.name} ELSE {})
    \cup (IF d.kind = "union" THEN UNION {RefNames(d.options[i], kind) : i \in 1..Len(d.options)} ELSE {})
    \cup (IF d.kind = "annotated"
          THEN RefNames(d.base, kind) \cup UNION {RefNames(d.metadata[i], kind) : i \in 1..Len(d.metadata)}
          ELSE {})

\* the names carried by the nodes of one kind anywhere in a registry: in its alias
\* entries and in the annotations of the fields of its model entries
RegistryRefs(reg, kind) ==
    UNION {IF reg[i].k \in ModelNames
           THEN UNION {RefNames(reg[i].v[j].v.annotation, kind) : j \in 1..Len(reg[i].v)}
           ELSE RefNames(reg[i].v, kind) : i \in 1..Len(reg)}

\* C11 (as claimed): in the registry returned, every name of a type_ref node is the
\* key of an alias entry and every name of a model_ref node is the key of a model
\* entry of that same registry.
C11_ReferencesResolve ==
    pc = "returned" =>
        /\ RegistryRefs(ret.value, "type_ref") \subseteq Keys(ret.value) \cap AliasNames
        /\ RegistryRefs(ret.value, "model_ref") \subseteq Keys(ret.value) \cap ModelNames

\* C11, the type_ref half alone: holds of the code.
C11_TypeRefsResolve ==
    pc = "returned" =>
        RegistryRefs(ret.value, "type_ref") \subseteq Keys(ret.value) \cap AliasNames

(***************************************************************************)
(* Inherited fields (SpecFields).                                          *)
(***************************************************************************)
\* the fields the model inherits from its parent and does not redeclare
InheritedFields == Keys(declared(classes, classes[model].base)) \ Keys(own_annotations(classes, model))

\* C12 (as claimed): a field the model inherits without redeclaring it gets the
\* annotation descriptor iter_model_fields gives it for the parent, with the same
\* alias dict (a type_ref in both when the parent spells a bare alias name), and
\* the keys of the result are exactly the declared and inherited fields.
C12_InheritedAnnotationsAgree ==
    (pc = "iter_model_fields" /\ classes[model].base # "BaseModel" /\ ~ret.raised) =>
        LET parent == iter_model_fields(classes, classes[model].base, type_aliases, module)
        IN /\ ~parent.raised
           /\ Keys(ret.value) = Keys(declared(classes, model))
           /\ \A f \in InheritedFields :
                 DictAt(ret.value, f).annotation = DictAt(parent.value, f).annotation

\* C12, the key set alone: holds of the code.
C12_KeysAreDeclaredAndInherited ==
    (pc = "iter_model_fields" /\ ~ret.raised) =>
        Keys(ret.value) = Keys(declared(classes, model))

====
